---- MODULE Spec2Model ----
(***************************************************************************)
(* krux_cloud_formation.CloudFormation and krux_troposphere.Troposphere:   *)
(* a facade that sequences calls to a stack-management client (_cf) and an *)
(* object-storage client (_s3).  Every call to a collaborator is one step; *)
(* what the collaborator answers (a value or a raised error) is chosen     *)
(* nondeterministically, and a successful call has its effect on the       *)
(* remote state (the set of stacks, the keys of the bucket).               *)
(***************************************************************************)
EXTENDS Naturals, Sequences, FiniteSets, TLC

(***************************************************************************)
(* Values                                                                  *)
(***************************************************************************)

\* The client processes that may hold a facade.
Clients == {"c1", "c2"}

\* How many different stack names the callers use.
MaxStacks == 2

\* Stack names passed to the public operations.
StackNames == {<<"a", "b", "c", "d">>[i] : i \in 1..MaxStacks}

\* Python's None for the optional s3_key argument is the empty tuple, a
\* given string s is <<s>>.
None == <<>>

Some(s) == <<s>>

\* The s3_key arguments tried: None, the empty string, a key that is no
\* stack name.
S3KeyArgs == {None, Some(""), Some("FAKE_KEY")}

DEFAULT_S3_BUCKET == "krux-temp"

DEFAULT_S3_REGION == "us-east-1"

(***************************************************************************)
(* Command-line arguments of get_cloud_formation                           *)
(***************************************************************************)

\* The flags added by add_cloud_formation_cli_arguments and the attribute
\* each one sets.
KnownFlags ==
    {"--boto-log-level", "--boto-access-key", "--boto-secret-key", "--boto-region",
     "--bucket-name", "--bucket-region"}

Dest(flag) ==
    CASE flag = "--boto-log-level" -> "boto_log_level"
      [] flag = "--boto-access-key" -> "boto_access_key"
      [] flag = "--boto-secret-key" -> "boto_secret_key"
      [] flag = "--boto-region" -> "boto_region"
      [] flag = "--bucket-name" -> "bucket_name"
      [] flag = "--bucket-region" -> "bucket_region"

\* The namespace of a command line that gives no flag: the bucket defaults
\* are those of this module, the boto defaults those of krux_boto.
DefaultArgs ==
    [boto_log_level |-> "default:boto_log_level",
     boto_access_key |-> "default:boto_access_key",
     boto_secret_key |-> "default:boto_secret_key",
     boto_region |-> "default:boto_region",
     bucket_name |-> DEFAULT_S3_BUCKET,
     bucket_region |-> DEFAULT_S3_REGION]

RECURSIVE ParseFrom(_, _, _)

\* The scan of parse_known_args: a known flag takes the word after it, every
\* other word is left among the unknown arguments.
ParseFrom(argv, i, ns) ==
    IF i > Len(argv) THEN ns
    ELSE IF argv[i] \in KnownFlags /\ i < Len(argv)
    THEN ParseFrom(argv, i + 2, [ns EXCEPT ![Dest(argv[i])] = argv[i + 1]])
    ELSE ParseFrom(argv, i + 1, ns)

\* parser.parse_known_args()[0] on sys.argv, whose first word is the program.
ParseKnownArgs(argv) == ParseFrom(argv, 2, DefaultArgs)

\* The args object of the tests, and one without the bucket attributes.
FAKE_ARGS ==
    [boto_log_level |-> "critical",
     boto_access_key |-> "FAKE_ACCESS_KEY",
     boto_secret_key |-> "FAKE_SECRET_KEY",
     boto_region |-> "us-gov-west-1",
     bucket_name |-> "Fake_bucket",
     bucket_region |-> "cn-north-1"]

BOTO_ONLY_ARGS ==
    [boto_log_level |-> "critical",
     boto_access_key |-> "FAKE_ACCESS_KEY",
     boto_secret_key |-> "FAKE_SECRET_KEY",
     boto_region |-> "us-gov-west-1"]

ArgsArgs == {None, Some(FAKE_ARGS), Some(BOTO_ONLY_ARGS)}

\* sys.argv of the tests, an empty command line, and one whose unknown words
\* come first.
_FAKE_COMMAND ==
    <<"krux-boto", "--boto-log-level", "critical", "--boto-access-key", "FAKE_ACCESS_KEY",
      "--boto-secret-key", "FAKE_SECRET_KEY", "--boto-region", "us-gov-west-1",
      "--bucket-name", "Fake_bucket", "--bucket-region", "cn-north-1", "--foo">>

Argvs ==
    {_FAKE_COMMAND, <<"krux-boto">>,
     <<"krux-boto", "--foo", "bar", "--bucket-region", "eu-west-1", "--baz">>}

\* getattr(args, name, default)
GetAttr(args, name, default) == IF name \in DOMAIN args THEN args[name] ELSE default

\* get_cloud_formation with the S3 boto in the region of the stack client.
Wiring_OneRegion(args, logger, stats) ==
    LET boto3 == [log_level |-> args.boto_log_level, access_key |-> args.boto_access_key,
                  secret_key |-> args.boto_secret_key, region |-> args.boto_region,
                  logger |-> logger, stats |-> stats]
        boto == [log_level |-> args.boto_log_level, access_key |-> args.boto_access_key,
                 secret_key |-> args.boto_secret_key, region |-> args.boto_region,
                 logger |-> logger, stats |-> stats]
        s3 == [boto |-> boto, logger |-> logger, stats |-> stats]
    IN  [boto3 |-> boto3, boto |-> boto, s3 |-> s3,
         cf |-> [boto |-> boto3, s3 |-> s3,
                 bucket_name |-> GetAttr(args, "bucket_name", DEFAULT_S3_BUCKET),
                 logger |-> logger, stats |-> stats]]

\* The constructor calls of get_cloud_formation: Boto3(...), Boto(...),
\* S3(...) and CloudFormation(...) with their keyword arguments.
Wiring(args, logger, stats) ==
    LET boto3 == [log_level |-> args.boto_log_level, access_key |-> args.boto_access_key,
                  secret_key |-> args.boto_secret_key, region |-> args.boto_region,
                  logger |-> logger, stats |-> stats]
        boto == [log_level |-> args.boto_log_level, access_key |-> args.boto_access_key,
                 secret_key |-> args.boto_secret_key,
                 region |-> GetAttr(args, "bucket_region", DEFAULT_S3_REGION),
                 logger |-> logger, stats |-> stats]
        s3 == [boto |-> boto, logger |-> logger, stats |-> stats]
    IN  [boto3 |-> boto3, boto |-> boto, s3 |-> s3,
         cf |-> [boto |-> boto3, s3 |-> s3,
                 bucket_name |-> GetAttr(args, "bucket_name", DEFAULT_S3_BUCKET),
                 logger |-> logger, stats |-> stats]]

NoInputs == [args |-> None, argv |-> <<>>, logger |-> None, stats |-> None]

\* Bucket names a facade may be constructed with.
BucketNames == {DEFAULT_S3_BUCKET, "FAKE_BUCKET"}

_S3_URL_EXPIRY == 3600

_NO_UPDATE_ERROR_MSG == "No updates are to be performed."

\* _STACK_NOT_EXIST_ERROR_MSG.format(stack_name=stack_name)
StackNotExistMsg(stack_name) == "Stack with id " \o stack_name \o " does not exist"

NO_UPDATE_ERROR_MSG == "No updates are to be performed."

\* Troposphere.STACK_NOT_EXIST_ERROR_MSG.format(stack_name=stack_name)
TpStackNotExistMsg(stack_name) == "Stack with id " \o stack_name \o " does not exist"

NAME == "krux-cloud-formation"

TP_NAME == "krux-troposphere"

\* The message of the NotImplementedError of CloudFormation.__init__: two
\* adjacent string literals.
NO_BOTO3_ERROR_MSG ==
    "Currently krux_cloud_formation.cloud_formation.CloudFormation "
        \o "only supports krux_boto.boto.Boto3"

\* The message of the NotImplementedError of Troposphere.__init__
TP_NO_BOTO3_ERROR_MSG ==
    "Currently krux_troposphere.troposphere.Troposphere only supports krux_boto.boto.Boto3"

\* The classes of the boto objects a constructor is given.
BotoKinds == {"Boto3", "Boto", "MagicMock"}

\* The logger and stats arguments tried: None or an object of the caller.
LoggerArgs == {None, Some("the_logger")}

StatsArgs == {None, Some("the_stats")}

\* get_logger(name), get_stats(prefix=name)
GetLogger(name) == Some("logger:" \o name)

GetStats(prefix) == Some("stats:" \o prefix)

\* isinstance(boto, Boto3) that lets every krux_boto class pass.
IsBoto3_AnyBoto(kind) == kind \in {"Boto3", "Boto"}

\* isinstance(boto, Boto3)
IsBoto3(kind) == kind = "Boto3"

UNKNOWN_ERROR_MSG == "An error that I cannot handle happened"

\* The template held by the facade and its serialisation.
Template == [Resources |-> {}]

ToJson(t) == [json |-> t]

(***************************************************************************)
(* Errors.  A ClientError carries the response dict of the remote API; any *)
(* other exception is a StandardError.                                     *)
(***************************************************************************)

EmptyDict == <<>>

\* dict.get(k, default)
DictGet(d, k, default) == IF k \in DOMAIN d THEN d[k] ELSE default

ErrorResp(m) == [Error |-> [Code |-> "ValidationError", Message |-> m]]

RespNoMessage == [Error |-> [Code |-> "ValidationError"]]

RespNoError == EmptyDict

ClientError(resp) == [type |-> "ClientError", response |-> resp]

StandardError == [type |-> "StandardError", response |-> EmptyDict]

NoError == [type |-> "", response |-> EmptyDict]

NotImplementedError(m) == [type |-> "NotImplementedError", response |-> EmptyDict, message |-> m]

\* The messages a remote API error may carry.
Messages ==
    {StackNotExistMsg(n) : n \in StackNames}
        \cup {_NO_UPDATE_ERROR_MSG, UNKNOWN_ERROR_MSG, ""}

ClientErrors ==
    {ClientError(ErrorResp(m)) : m \in Messages}
        \cup {ClientError(RespNoMessage), ClientError(RespNoError)}

Errors == ClientErrors \cup {StandardError}

\* err.response.get('Error', {}).get('Message', '')
ErrMessage(err) == DictGet(DictGet(err.response, "Error", EmptyDict), "Message", "")

\* What a collaborator answers to one call.
Ok == [ok |-> TRUE, err |-> NoError]

Raise(e) == [ok |-> FALSE, err |-> e]

Responses == {Ok} \cup {Raise(e) : e \in Errors}

(***************************************************************************)
(* Results of the facade's own methods.                                    *)
(***************************************************************************)

Running == [status |-> "running", value |-> "", err |-> NoError]

Returned(v) == [status |-> "returned", value |-> v, err |-> NoError]

Raised(e) == [status |-> "raised", value |-> "", err |-> e]

NoFile == [bucket |-> "", key |-> ""]

NoUrl == [bucket |-> "", key |-> "", expires |-> 0]

\* The object handle returned by update_key / create_key.
S3File(b, k) == [bucket |-> b, key |-> k]

\* s3_file.generate_url(expires)
Url(f, expires) == [bucket |-> f.bucket, key |-> f.key, expires |-> expires]

NoOp == [facade |-> "", name |-> "", stack_name |-> "", s3_key |-> None]

\* The fields of a facade under construction.
NoFields ==
    [_name |-> "", _logger |-> None, _stats |-> None, _s3 |-> "", _bucket_name |-> "",
     _cf |-> "", template |-> None]

NoLocals ==
    [key |-> "", exists |-> "", s3_file |-> NoFile, url |-> NoUrl,
     boto |-> "", bucket_name |-> "", self |-> NoFields,
     inputs |-> NoInputs, wiring |-> <<>>]

(***************************************************************************)
(* Pure parts of the methods.                                              *)
(***************************************************************************)

\* _is_stack_exists without the .format() of the expected message.
IsStackExists_Unformatted(stack_name, resp) ==
    IF resp.ok THEN Returned("True")
    ELSE IF resp.err.type = "ClientError"
            /\ "Stack with id {stack_name} does not exist" = ErrMessage(resp.err)
         THEN Returned("False")
    ELSE Raised(resp.err)

\* _is_stack_exists taking every client error for "does not exist".
IsStackExists_AnyClientError(stack_name, resp) ==
    IF resp.ok THEN Returned("True")
    ELSE IF resp.err.type = "ClientError" THEN Returned("False")
    ELSE Raised(resp.err)

\* _is_stack_exists reading err.response['Error']['Message'] by subscript:
\* a response without the entry raises KeyError in place of the client error.
IsStackExists_Subscript(stack_name, resp) ==
    IF resp.ok THEN Returned("True")
    ELSE IF resp.err.type = "ClientError"
            /\ ("Error" \notin DOMAIN resp.err.response
                \/ "Message" \notin DOMAIN resp.err.response["Error"])
         THEN Raised([type |-> "KeyError", response |-> EmptyDict])
    ELSE IF resp.err.type = "ClientError"
            /\ StackNotExistMsg(stack_name) = ErrMessage(resp.err)
         THEN Returned("False")
    ELSE Raised(resp.err)

\* CloudFormation._is_stack_exists: the result for one answer of
\* get_template.
IsStackExists(stack_name, resp) ==
    IF resp.ok THEN Returned("True")
    ELSE IF resp.err.type = "ClientError"
            /\ StackNotExistMsg(stack_name) = ErrMessage(resp.err)
         THEN Returned("False")
    ELSE Raised(resp.err)

\* Troposphere._is_stack_exists
TpIsStackExists(stack_name, resp) ==
    IF resp.ok THEN Returned("True")
    ELSE IF resp.err.type = "ClientError"
            /\ TpStackNotExistMsg(stack_name) = ErrMessage(resp.err)
         THEN Returned("False")
    ELSE Raised(resp.err)

\* save with the two branches exchanged.
SaveBranch_Swapped(exists) == IF exists = "True" THEN "create_key" ELSE "update_key"

\* if self._is_stack_exists(stack_name): ... else: ... in CloudFormation.save
SaveBranch(exists) == IF exists = "True" THEN "update_key" ELSE "create_key"

\* if self._is_stack_exists(stack_name): ... else: ... in Troposphere.save
TpSaveBranch(exists) == IF exists = "True" THEN "update_stack" ELSE "create_stack"

\* An except clause that re-raises whatever it caught.
UpdateFailure_AlwaysRaise(err) == Raised(err)

\* An except clause that swallows every client error.
UpdateFailure_AnyClientError(err) ==
    IF err.type = "ClientError" THEN Returned("None") ELSE Raised(err)

\* The except clause around update_stack in CloudFormation.save: what save
\* makes of an error raised inside the try block.
UpdateFailure(err) ==
    IF err.type = "ClientError" /\ _NO_UPDATE_ERROR_MSG = ErrMessage(err)
    THEN Returned("None")
    ELSE Raised(err)

\* The except clause around update_stack in Troposphere.save
TpUpdateFailure(err) ==
    IF err.type = "ClientError" /\ NO_UPDATE_ERROR_MSG = ErrMessage(err)
    THEN Returned("None")
    ELSE Raised(err)

\* key = s3_key or stack_name
KeyFor_Truthy(s3_key, stack_name) ==
    IF s3_key # None /\ s3_key[1] # "" THEN s3_key[1] ELSE stack_name

\* key = s3_key if s3_key is not None else stack_name
KeyFor(s3_key, stack_name) == IF s3_key # None THEN s3_key[1] ELSE stack_name

(***************************************************************************)
(* State                                                                   *)
(***************************************************************************)

VARIABLES
    bucket_name,   \* CloudFormation._bucket_name
    active,        \* the clients that run
    stacks,        \* remote: the names of the stacks that exist
    bucket,        \* remote: the keys present in the bucket bucket_name
    pc,            \* per client: the next collaborator call of its operation
    op,            \* per client: the operation in progress and its arguments
    locals,        \* per client: key, existence result, s3_file, url
    calls,         \* per client: the collaborator calls issued by the operation
    outcome,       \* per client: how the operation ended
    stacks0        \* per client: the stacks that existed when the operation began

config == <<bucket_name, active>>

remote == <<stacks, bucket>>

vars == <<bucket_name, active, stacks, bucket, pc, op, locals, calls, outcome, stacks0>>

Init ==
    /\ bucket_name \in BucketNames
    /\ active = {"c1"}
    /\ stacks = {}
    /\ bucket = {}
    /\ pc = [c \in Clients |-> "idle"]
    /\ op = [c \in Clients |-> NoOp]
    /\ locals = [c \in Clients |-> NoLocals]
    /\ calls = [c \in Clients |-> <<>>]
    /\ outcome = [c \in Clients |-> Running]
    /\ stacks0 = [c \in Clients |-> {}]

\* One collaborator call as it is recorded in calls.
Call(api, args, resp) == [api |-> api, args |-> args, ok |-> resp.ok, err |-> resp.err]

\* A public method is entered: its arguments are bound and nothing is called yet.
Enter(c, facade, name, stack_name, s3_key, first) ==
    /\ c \in active
    /\ pc[c] = "idle"
    /\ pc' = [pc EXCEPT ![c] = first]
    /\ op' = [op EXCEPT ![c] = [facade |-> facade, name |-> name,
                                stack_name |-> stack_name, s3_key |-> s3_key]]
    /\ calls' = [calls EXCEPT ![c] = <<>>]
    /\ outcome' = [outcome EXCEPT ![c] = Running]
    /\ stacks0' = [stacks0 EXCEPT ![c] = stacks]
    /\ UNCHANGED <<config, remote>>

\* The method ends at the step that is taken: it returns or raises.
Finish(c, result) ==
    /\ pc' = [pc EXCEPT ![c] = "done"]
    /\ outcome' = [outcome EXCEPT ![c] = result]

\* The method goes on to its next collaborator call.
Goto(c, next) ==
    /\ pc' = [pc EXCEPT ![c] = next]
    /\ UNCHANGED outcome

(***************************************************************************)
(* CloudFormation                                                          *)
(***************************************************************************)

\* CloudFormation._is_stack_exists(stack_name) called on its own.
CfCheck(c, stack_name) ==
    /\ Enter(c, "CloudFormation", "_is_stack_exists", stack_name, None, "get_template")
    /\ locals' = [locals EXCEPT ![c] = NoLocals]

\* CloudFormation.save(stack_name, s3_key): the key is computed on entry.
CfSave(c, stack_name, s3_key) ==
    /\ Enter(c, "CloudFormation", "save", stack_name, s3_key, "get_template")
    /\ locals' = [locals EXCEPT ![c] = [NoLocals EXCEPT !.key = KeyFor(s3_key, stack_name)]]

\* delete that goes straight to delete_stack and leaves the key in place.
CfDelete_SkipRemove(c, stack_name, s3_key) ==
    /\ Enter(c, "CloudFormation", "delete", stack_name, s3_key, "delete_stack")
    /\ locals' = [locals EXCEPT ![c] = [NoLocals EXCEPT !.key = KeyFor(s3_key, stack_name)]]

\* delete that takes the stack name for the key whatever s3_key is.
CfDelete_StackNameKey(c, stack_name, s3_key) ==
    /\ Enter(c, "CloudFormation", "delete", stack_name, s3_key, "remove_keys")
    /\ locals' = [locals EXCEPT ![c] = [NoLocals EXCEPT !.key = stack_name]]

\* CloudFormation.delete(stack_name, s3_key)
CfDelete(c, stack_name, s3_key) ==
    /\ Enter(c, "CloudFormation", "delete", stack_name, s3_key, "remove_keys")
    /\ locals' = [locals EXCEPT ![c] = [NoLocals EXCEPT !.key = KeyFor(s3_key, stack_name)]]

\* self._cf.get_template(StackName=stack_name) inside _is_stack_exists, and
\* what _is_stack_exists and, in save, the branch on it make of the answer.
CfGetTemplate(c) ==
    /\ c \in active
    /\ pc[c] = "get_template"
    /\ op[c].facade = "CloudFormation"
    /\ \E resp \in Responses :
        LET res == IsStackExists(op[c].stack_name, resp) IN
        /\ calls' = [calls EXCEPT ![c] =
                        Append(@, Call("get_template", [StackName |-> op[c].stack_name], resp))]
        /\ IF res.status = "raised" \/ op[c].name = "_is_stack_exists"
           THEN Finish(c, res) /\ UNCHANGED locals
           ELSE /\ Goto(c, SaveBranch(res.value))
                /\ locals' = [locals EXCEPT ![c].exists = res.value]
    /\ UNCHANGED <<config, remote, op, stacks0>>

\* self._s3.update_key(bucket_name=self._bucket_name, key=key, str_content=...)
CfUpdateKey(c) ==
    /\ c \in active
    /\ pc[c] = "update_key"
    /\ \E resp \in Responses :
        /\ calls' = [calls EXCEPT ![c] =
                        Append(@, Call("update_key",
                                       [bucket_name |-> bucket_name, key |-> locals[c].key,
                                        str_content |-> ToJson(Template)], resp))]
        /\ IF resp.ok
           THEN /\ Goto(c, "update_url")
                /\ locals' = [locals EXCEPT ![c].s3_file = S3File(bucket_name, locals[c].key)]
                /\ bucket' = bucket \cup {locals[c].key}
           ELSE /\ Finish(c, Raised(resp.err))
                /\ UNCHANGED <<locals, bucket>>
    /\ UNCHANGED <<config, stacks, op, stacks0>>

\* self._s3.create_key(bucket_name=self._bucket_name, key=key, str_content=...)
CfCreateKey(c) ==
    /\ c \in active
    /\ pc[c] = "create_key"
    /\ \E resp \in Responses :
        /\ calls' = [calls EXCEPT ![c] =
                        Append(@, Call("create_key",
                                       [bucket_name |-> bucket_name, key |-> locals[c].key,
                                        str_content |-> ToJson(Template)], resp))]
        /\ IF resp.ok
           THEN /\ Goto(c, "create_url")
                /\ locals' = [locals EXCEPT ![c].s3_file = S3File(bucket_name, locals[c].key)]
                /\ bucket' = bucket \cup {locals[c].key}
           ELSE /\ Finish(c, Raised(resp.err))
                /\ UNCHANGED <<locals, bucket>>
    /\ UNCHANGED <<config, stacks, op, stacks0>>

\* s3_file.generate_url(self._S3_URL_EXPIRY), the argument of update_stack:
\* it is evaluated inside the try block of the update branch.
CfUpdateUrl(c) ==
    /\ c \in active
    /\ pc[c] = "update_url"
    /\ \E resp \in Responses :
        /\ calls' = [calls EXCEPT ![c] =
                        Append(@, Call("generate_url",
                                       [s3_file |-> locals[c].s3_file,
                                        expires |-> _S3_URL_EXPIRY], resp))]
        /\ IF resp.ok
           THEN /\ Goto(c, "update_stack")
                /\ locals' = [locals EXCEPT ![c].url = Url(locals[c].s3_file, _S3_URL_EXPIRY)]
           ELSE /\ Finish(c, UpdateFailure(resp.err))
                /\ UNCHANGED locals
    /\ UNCHANGED <<config, remote, op, stacks0>>

\* update_stack that is tried again after an error it does not know.
CfUpdateStack_Retry(c) ==
    /\ c \in active
    /\ pc[c] = "update_stack"
    /\ op[c].facade = "CloudFormation"
    /\ \E resp \in Responses :
        /\ calls' = [calls EXCEPT ![c] =
                        Append(@, Call("update_stack",
                                       [StackName |-> op[c].stack_name,
                                        TemplateURL |-> locals[c].url], resp))]
        /\ IF resp.ok \/ UpdateFailure(resp.err).status = "returned"
           THEN Finish(c, Returned("None"))
           ELSE UNCHANGED <<pc, outcome>>
    /\ UNCHANGED <<config, remote, op, locals, stacks0>>

\* self._cf.update_stack(StackName=stack_name, TemplateURL=...) and the
\* except clause around it.
CfUpdateStack(c) ==
    /\ c \in active
    /\ pc[c] = "update_stack"
    /\ op[c].facade = "CloudFormation"
    /\ \E resp \in Responses :
        /\ calls' = [calls EXCEPT ![c] =
                        Append(@, Call("update_stack",
                                       [StackName |-> op[c].stack_name,
                                        TemplateURL |-> locals[c].url], resp))]
        /\ Finish(c, IF resp.ok THEN Returned("None") ELSE UpdateFailure(resp.err))
    /\ UNCHANGED <<config, remote, op, locals, stacks0>>

\* s3_file.generate_url(self._S3_URL_EXPIRY), the argument of create_stack
CfCreateUrl(c) ==
    /\ c \in active
    /\ pc[c] = "create_url"
    /\ \E resp \in Responses :
        /\ calls' = [calls EXCEPT ![c] =
                        Append(@, Call("generate_url",
                                       [s3_file |-> locals[c].s3_file,
                                        expires |-> _S3_URL_EXPIRY], resp))]
        /\ IF resp.ok
           THEN /\ Goto(c, "create_stack")
                /\ locals' = [locals EXCEPT ![c].url = Url(locals[c].s3_file, _S3_URL_EXPIRY)]
           ELSE /\ Finish(c, Raised(resp.err))
                /\ UNCHANGED locals
    /\ UNCHANGED <<config, remote, op, stacks0>>

\* create_stack that removes the uploaded template again when it fails.
CfCreateStack_Cleanup(c) ==
    /\ c \in active
    /\ pc[c] = "create_stack"
    /\ op[c].facade = "CloudFormation"
    /\ \E resp \in Responses :
        /\ calls' = [calls EXCEPT ![c] =
                        IF resp.ok
                        THEN Append(@, Call("create_stack",
                                            [StackName |-> op[c].stack_name,
                                             TemplateURL |-> locals[c].url], resp))
                        ELSE @ \o <<Call("create_stack",
                                         [StackName |-> op[c].stack_name,
                                          TemplateURL |-> locals[c].url], resp),
                                    Call("remove_keys",
                                         [bucket_name |-> bucket_name,
                                          keys |-> <<locals[c].key>>], Ok)>>]
        /\ Finish(c, IF resp.ok THEN Returned("None") ELSE Raised(resp.err))
        /\ stacks' = IF resp.ok THEN stacks \cup {op[c].stack_name} ELSE stacks
        /\ bucket' = IF resp.ok THEN bucket ELSE bucket \ {locals[c].key}
    /\ UNCHANGED <<config, op, locals, stacks0>>

\* create_stack wrapped in the except clause of the update branch.
CfCreateStack_Swallow(c) ==
    /\ c \in active
    /\ pc[c] = "create_stack"
    /\ op[c].facade = "CloudFormation"
    /\ \E resp \in Responses :
        /\ calls' = [calls EXCEPT ![c] =
                        Append(@, Call("create_stack",
                                       [StackName |-> op[c].stack_name,
                                        TemplateURL |-> locals[c].url], resp))]
        /\ Finish(c, IF resp.ok THEN Returned("None") ELSE UpdateFailure(resp.err))
        /\ stacks' = IF resp.ok THEN stacks \cup {op[c].stack_name} ELSE stacks
    /\ UNCHANGED <<config, bucket, op, locals, stacks0>>

\* self._cf.create_stack(StackName=stack_name, TemplateURL=...)
CfCreateStack(c) ==
    /\ c \in active
    /\ pc[c] = "create_stack"
    /\ op[c].facade = "CloudFormation"
    /\ \E resp \in Responses :
        /\ calls' = [calls EXCEPT ![c] =
                        Append(@, Call("create_stack",
                                       [StackName |-> op[c].stack_name,
                                        TemplateURL |-> locals[c].url], resp))]
        /\ Finish(c, IF resp.ok THEN Returned("None") ELSE Raised(resp.err))
        /\ stacks' = IF resp.ok THEN stacks \cup {op[c].stack_name} ELSE stacks
    /\ UNCHANGED <<config, bucket, op, locals, stacks0>>

\* self._s3.remove_keys(bucket_name=self._bucket_name, keys=[key])
CfRemoveKeys(c) ==
    /\ c \in active
    /\ pc[c] = "remove_keys"
    /\ \E resp \in Responses :
        /\ calls' = [calls EXCEPT ![c] =
                        Append(@, Call("remove_keys",
                                       [bucket_name |-> bucket_name,
                                        keys |-> <<locals[c].key>>], resp))]
        /\ IF resp.ok
           THEN Goto(c, "delete_stack") /\ bucket' = bucket \ {locals[c].key}
           ELSE Finish(c, Raised(resp.err)) /\ UNCHANGED bucket
    /\ UNCHANGED <<config, stacks, op, locals, stacks0>>

\* self._cf.delete_stack(StackName=stack_name)
CfDeleteStack(c) ==
    /\ c \in active
    /\ pc[c] = "delete_stack"
    /\ \E resp \in Responses :
        /\ calls' = [calls EXCEPT ![c] =
                        Append(@, Call("delete_stack",
                                       [StackName |-> op[c].stack_name], resp))]
        /\ Finish(c, IF resp.ok THEN Returned("None") ELSE Raised(resp.err))
        /\ stacks' = IF resp.ok THEN stacks \ {op[c].stack_name} ELSE stacks
    /\ UNCHANGED <<config, bucket, op, locals, stacks0>>

(***************************************************************************)
(* Troposphere                                                             *)
(***************************************************************************)

\* Troposphere._is_stack_exists(stack_name) called on its own.
TpCheck(c, stack_name) ==
    /\ Enter(c, "Troposphere", "_is_stack_exists", stack_name, None, "get_template")
    /\ locals' = [locals EXCEPT ![c] = NoLocals]

\* Troposphere.save(stack_name)
TpSave(c, stack_name) ==
    /\ Enter(c, "Troposphere", "save", stack_name, None, "get_template")
    /\ locals' = [locals EXCEPT ![c] = NoLocals]

\* self._cf.get_template(StackName=stack_name) inside _is_stack_exists, and
\* what _is_stack_exists and, in save, the branch on it make of the answer.
TpGetTemplate(c) ==
    /\ c \in active
    /\ pc[c] = "get_template"
    /\ op[c].facade = "Troposphere"
    /\ \E resp \in Responses :
        LET res == TpIsStackExists(op[c].stack_name, resp) IN
        /\ calls' = [calls EXCEPT ![c] =
                        Append(@, Call("get_template", [StackName |-> op[c].stack_name], resp))]
        /\ IF res.status = "raised" \/ op[c].name = "_is_stack_exists"
           THEN Finish(c, res) /\ UNCHANGED locals
           ELSE /\ Goto(c, TpSaveBranch(res.value))
                /\ locals' = [locals EXCEPT ![c].exists = res.value]
    /\ UNCHANGED <<config, remote, op, stacks0>>

\* self._cf.update_stack(StackName=stack_name, TemplateBody=...) and the
\* except clause around it.
TpUpdateStack(c) ==
    /\ c \in active
    /\ pc[c] = "update_stack"
    /\ op[c].facade = "Troposphere"
    /\ \E resp \in Responses :
        /\ calls' = [calls EXCEPT ![c] =
                        Append(@, Call("update_stack",
                                       [StackName |-> op[c].stack_name,
                                        TemplateBody |-> ToJson(Template)], resp))]
        /\ Finish(c, IF resp.ok THEN Returned("None") ELSE TpUpdateFailure(resp.err))
    /\ UNCHANGED <<config, remote, op, locals, stacks0>>

\* self._cf.create_stack(StackName=stack_name, TemplateBody=...)
TpCreateStack(c) ==
    /\ c \in active
    /\ pc[c] = "create_stack"
    /\ op[c].facade = "Troposphere"
    /\ \E resp \in Responses :
        /\ calls' = [calls EXCEPT ![c] =
                        Append(@, Call("create_stack",
                                       [StackName |-> op[c].stack_name,
                                        TemplateBody |-> ToJson(Template)], resp))]
        /\ Finish(c, IF resp.ok THEN Returned("None") ELSE Raised(resp.err))
        /\ stacks' = IF resp.ok THEN stacks \cup {op[c].stack_name} ELSE stacks
    /\ UNCHANGED <<config, bucket, op, locals, stacks0>>

(***************************************************************************)
(* Constructors                                                            *)
(***************************************************************************)

\* logger or get_logger(name)
OrElse(given, default) == IF given # None THEN given ELSE default

\* CloudFormation.__init__(boto, s3, bucket_name, logger, stats): _name,
\* _logger and _stats are set before boto is looked at.
CfInit(c, boto, bucket_arg, logger, stats) ==
    /\ Enter(c, "CloudFormation", "__init__", "", None, "isinstance")
    /\ locals' = [locals EXCEPT ![c] =
                    [NoLocals EXCEPT !.boto = boto, !.bucket_name = bucket_arg,
                                     !.self = [NoFields EXCEPT
                                                 !._name = NAME,
                                                 !._logger = OrElse(logger, GetLogger(NAME)),
                                                 !._stats = OrElse(stats, GetStats(NAME))]]]

\* if not isinstance(boto, Boto3): raise NotImplementedError(...); then
\* self._s3 and self._bucket_name are set.
CfInitCheck(c) ==
    /\ c \in active
    /\ pc[c] = "isinstance"
    /\ op[c].facade = "CloudFormation"
    /\ IF ~IsBoto3(locals[c].boto)
       THEN /\ Finish(c, Raised(NotImplementedError(NO_BOTO3_ERROR_MSG)))
            /\ UNCHANGED locals
       ELSE /\ Goto(c, "client")
            /\ locals' = [locals EXCEPT ![c].self._s3 = "s3",
                                        ![c].self._bucket_name = locals[c].bucket_name]
    /\ UNCHANGED <<config, remote, op, calls, stacks0>>

\* self._cf = boto.client('cloudformation')
CfInitClient(c) ==
    /\ c \in active
    /\ pc[c] = "client"
    /\ op[c].facade = "CloudFormation"
    /\ \E resp \in {Ok, Raise(StandardError)} :
        /\ calls' = [calls EXCEPT ![c] =
                        Append(@, Call("client", [service_name |-> "cloudformation"], resp))]
        /\ IF resp.ok
           THEN Goto(c, "template") /\ locals' = [locals EXCEPT ![c].self._cf = "cloudformation"]
           ELSE Finish(c, Raised(resp.err)) /\ UNCHANGED locals
    /\ UNCHANGED <<config, remote, op, stacks0>>

\* self.template = troposphere.Template()
CfInitTemplate(c) ==
    /\ c \in active
    /\ pc[c] = "template"
    /\ op[c].facade = "CloudFormation"
    /\ locals' = [locals EXCEPT ![c].self.template = Some(Template)]
    /\ Finish(c, Returned("None"))
    /\ UNCHANGED <<config, remote, op, calls, stacks0>>

\* Troposphere.__init__(boto, logger, stats)
TpInit(c, boto, logger, stats) ==
    /\ Enter(c, "Troposphere", "__init__", "", None, "isinstance")
    /\ locals' = [locals EXCEPT ![c] =
                    [NoLocals EXCEPT !.boto = boto,
                                     !.self = [NoFields EXCEPT
                                                 !._name = TP_NAME,
                                                 !._logger = OrElse(logger, GetLogger(TP_NAME)),
                                                 !._stats = OrElse(stats, GetStats(TP_NAME))]]]

\* if not isinstance(boto, Boto3): raise NotImplementedError(...)
TpInitCheck(c) ==
    /\ c \in active
    /\ pc[c] = "isinstance"
    /\ op[c].facade = "Troposphere"
    /\ IF ~IsBoto3(locals[c].boto)
       THEN Finish(c, Raised(NotImplementedError(TP_NO_BOTO3_ERROR_MSG)))
       ELSE Goto(c, "client")
    /\ UNCHANGED <<config, remote, op, locals, calls, stacks0>>

\* self._cf = boto.client('cloudformation')
TpInitClient(c) ==
    /\ c \in active
    /\ pc[c] = "client"
    /\ op[c].facade = "Troposphere"
    /\ \E resp \in {Ok, Raise(StandardError)} :
        /\ calls' = [calls EXCEPT ![c] =
                        Append(@, Call("client", [service_name |-> "cloudformation"], resp))]
        /\ IF resp.ok
           THEN Goto(c, "template") /\ locals' = [locals EXCEPT ![c].self._cf = "cloudformation"]
           ELSE Finish(c, Raised(resp.err)) /\ UNCHANGED locals
    /\ UNCHANGED <<config, remote, op, stacks0>>

\* self.template = troposphere.Template()
TpInitTemplate(c) ==
    /\ c \in active
    /\ pc[c] = "template"
    /\ op[c].facade = "Troposphere"
    /\ locals' = [locals EXCEPT ![c].self.template = Some(Template)]
    /\ Finish(c, Returned("None"))
    /\ UNCHANGED <<config, remote, op, calls, stacks0>>

\* get_cloud_formation(args, logger, stats): the arguments are parsed from
\* sys.argv when none are given, logger and stats are made when none are
\* given, Boto3, Boto and S3 are built, and CloudFormation is constructed
\* from them.
GetCloudFormation(c, args, argv, logger, stats) ==
    LET a == IF args = None THEN ParseKnownArgs(argv) ELSE args[1]
        l == OrElse(logger, GetLogger(NAME))
        st == OrElse(stats, GetStats(NAME))
        w == Wiring(a, l, st)
    IN  /\ Enter(c, "CloudFormation", "get_cloud_formation", "", None, "isinstance")
        /\ locals' = [locals EXCEPT ![c] =
                        [NoLocals EXCEPT
                            !.inputs = [args |-> args, argv |-> argv,
                                        logger |-> logger, stats |-> stats],
                            !.wiring = w,
                            !.boto = "Boto3",
                            !.bucket_name = w.cf.bucket_name,
                            !.self = [NoFields EXCEPT
                                        !._name = NAME,
                                        !._logger = OrElse(w.cf.logger, GetLogger(NAME)),
                                        !._stats = OrElse(w.cf.stats, GetStats(NAME))]]]

\* The caller has the result of the method and may call the facade again.
Return(c) ==
    /\ c \in active
    /\ pc[c] = "done"
    /\ pc' = [pc EXCEPT ![c] = "idle"]
    /\ op' = [op EXCEPT ![c] = NoOp]
    /\ locals' = [locals EXCEPT ![c] = NoLocals]
    /\ calls' = [calls EXCEPT ![c] = <<>>]
    /\ outcome' = [outcome EXCEPT ![c] = Running]
    /\ stacks0' = [stacks0 EXCEPT ![c] = {}]
    /\ UNCHANGED <<config, remote>>

Next ==
    \E c \in Clients :
        \/ \E n \in StackNames : CfCheck(c, n)
        \/ \E n \in StackNames, k \in S3KeyArgs : CfSave(c, n, k)
        \/ \E n \in StackNames, k \in S3KeyArgs : CfDelete(c, n, k)
        \/ CfGetTemplate(c)
        \/ CfUpdateKey(c)
        \/ CfCreateKey(c)
        \/ CfUpdateUrl(c)
        \/ CfUpdateStack(c)
        \/ CfCreateUrl(c)
        \/ CfCreateStack(c)
        \/ CfRemoveKeys(c)
        \/ CfDeleteStack(c)
        \/ \E n \in StackNames : TpCheck(c, n)
        \/ \E n \in StackNames : TpSave(c, n)
        \/ TpGetTemplate(c)
        \/ TpUpdateStack(c)
        \/ TpCreateStack(c)
        \/ \E b \in BotoKinds, bn \in BucketNames, l \in LoggerArgs, st \in StatsArgs :
                CfInit(c, b, bn, l, st)
        \/ CfInitCheck(c)
        \/ CfInitClient(c)
        \/ CfInitTemplate(c)
        \/ \E b \in BotoKinds, l \in LoggerArgs, st \in StatsArgs : TpInit(c, b, l, st)
        \/ TpInitCheck(c)
        \/ TpInitClient(c)
        \/ TpInitTemplate(c)
        \/ \E a \in ArgsArgs, l \in LoggerArgs, st \in StatsArgs :
                \E av \in IF a = None THEN Argvs ELSE {<<"krux-boto">>} :
                    GetCloudFormation(c, a, av, l, st)
        \/ Return(c)

Spec == Init /\ [][Next]_vars

(***************************************************************************)
(* The two save methods side by side                                       *)
(***************************************************************************)

\* Both clients are in use, on the same account and bucket.
InitPair ==
    /\ bucket_name \in BucketNames
    /\ active = Clients
    /\ stacks = {}
    /\ bucket = {}
    /\ pc = [c \in Clients |-> "idle"]
    /\ op = [c \in Clients |-> NoOp]
    /\ locals = [c \in Clients |-> NoLocals]
    /\ calls = [c \in Clients |-> <<>>]
    /\ outcome = [c \in Clients |-> Running]
    /\ stacks0 = [c \in Clients |-> {}]

\* One CloudFormation.save of c1 and one Troposphere.save of c2, a facade of
\* each class, their calls interleaved in any order.
NextPair ==
    \/ \E n \in StackNames, k \in S3KeyArgs : CfSave("c1", n, k)
    \/ CfGetTemplate("c1")
    \/ CfUpdateKey("c1")
    \/ CfCreateKey("c1")
    \/ CfUpdateUrl("c1")
    \/ CfUpdateStack("c1")
    \/ CfCreateUrl("c1")
    \/ CfCreateStack("c1")
    \/ \E n \in StackNames : TpSave("c2", n)
    \/ TpGetTemplate("c2")
    \/ TpUpdateStack("c2")
    \/ TpCreateStack("c2")

SpecPair == InitPair /\ [][NextPair]_vars

(***************************************************************************)
(* A remote API that reports existing stacks as existing                   *)
(***************************************************************************)

\* get_template of a stack that exists succeeds; of one that does not, it
\* answers as it likes.
CfGetTemplateTruthful(c) ==
    /\ CfGetTemplate(c)
    /\ op[c].stack_name \in stacks => calls'[c][Len(calls'[c])].ok

\* One facade whose caller saves and deletes stacks one call after the other.
NextSeq ==
    \/ \E n \in StackNames, k \in S3KeyArgs : CfSave("c1", n, k)
    \/ \E n \in StackNames, k \in S3KeyArgs : CfDelete("c1", n, k)
    \/ CfGetTemplateTruthful("c1")
    \/ CfUpdateKey("c1")
    \/ CfCreateKey("c1")
    \/ CfUpdateUrl("c1")
    \/ CfUpdateStack("c1")
    \/ CfCreateUrl("c1")
    \/ CfCreateStack("c1")
    \/ CfRemoveKeys("c1")
    \/ CfDeleteStack("c1")
    \/ Return("c1")

SpecSeq == Init /\ [][NextSeq]_vars

(***************************************************************************)
(* Several clients on the same stacks                                      *)
(***************************************************************************)

\* get_template answered by an API that knows its stacks: it does not
\* succeed for a stack that is not there, and does not say that a stack
\* that is there does not exist.
CfGetTemplateExact(c) ==
    /\ CfGetTemplate(c)
    /\ LET answer == calls'[c][Len(calls'[c])]
           n == op[c].stack_name
       IN  IF n \in stacks
           THEN ~(/\ ~answer.ok
                  /\ answer.err.type = "ClientError"
                  /\ ErrMessage(answer.err) = StackNotExistMsg(n))
           ELSE ~answer.ok

\* Two CloudFormation facades of two processes on one account, some stacks
\* of which exist already.
InitConc ==
    /\ bucket_name = DEFAULT_S3_BUCKET
    /\ active = Clients
    /\ stacks \in SUBSET StackNames
    /\ bucket = {}
    /\ pc = [c \in Clients |-> "idle"]
    /\ op = [c \in Clients |-> NoOp]
    /\ locals = [c \in Clients |-> NoLocals]
    /\ calls = [c \in Clients |-> <<>>]
    /\ outcome = [c \in Clients |-> Running]
    /\ stacks0 = [c \in Clients |-> {}]

\* Each process calls save or delete once; their remote calls interleave.
NextConc ==
    \E c \in Clients :
        \/ \E n \in StackNames : CfSave(c, n, None)
        \/ \E n \in StackNames : CfDelete(c, n, None)
        \/ CfGetTemplateExact(c)
        \/ CfUpdateKey(c)
        \/ CfCreateKey(c)
        \/ CfUpdateUrl(c)
        \/ CfUpdateStack(c)
        \/ CfCreateUrl(c)
        \/ CfCreateStack(c)
        \/ CfRemoveKeys(c)
        \/ CfDeleteStack(c)

SpecConc == InitConc /\ [][NextConc]_vars

(***************************************************************************)
(* A save and then a delete                                                *)
(***************************************************************************)

\* The caller calls delete once its save is over.
DeleteAfterSave(c, d, stack_name, s3_key) ==
    /\ pc[c] = "done"
    /\ op[c].name = "save"
    /\ CfDelete(d, stack_name, s3_key)

\* One save, whose calls and result stay with c1, then one delete, whose
\* calls and result stay with c2.
NextRoundTrip ==
    \/ \E n \in StackNames, k \in S3KeyArgs : CfSave("c1", n, k)
    \/ CfGetTemplate("c1")
    \/ CfUpdateKey("c1")
    \/ CfCreateKey("c1")
    \/ CfUpdateUrl("c1")
    \/ CfUpdateStack("c1")
    \/ CfCreateUrl("c1")
    \/ CfCreateStack("c1")
    \/ \E n \in StackNames, k \in S3KeyArgs : DeleteAfterSave("c1", "c2", n, k)
    \/ CfRemoveKeys("c2")
    \/ CfDeleteStack("c2")

SpecRoundTrip == InitPair /\ [][NextRoundTrip]_vars

(***************************************************************************)
(* Properties                                                              *)
(***************************************************************************)

Done(c) == pc[c] = "done"

\* The positions in the calls of c where api was called.
CallsOf(c, api) == {i \in 1..Len(calls[c]) : calls[c][i].api = api}

Count(c, api) == Cardinality(CallsOf(c, api))

\* err is a client error whose response carries exactly the message m.
HasMessage(err, m) ==
    /\ err.type = "ClientError"
    /\ "Error" \in DOMAIN err.response
    /\ "Message" \in DOMAIN err.response["Error"]
    /\ err.response["Error"]["Message"] = m

\* The call failed with "Stack with id n does not exist" for the n asked about.
SaysNotExist(call, n) ==
    ~call.ok /\ HasMessage(call.err, "Stack with id " \o n \o " does not exist")

\* The call failed with "No updates are to be performed."
SaysNoUpdate(call) ==
    ~call.ok /\ HasMessage(call.err, "No updates are to be performed.")

\* The last call of c; a call to no collaborator when c has made none.
Last(c) ==
    IF calls[c] = <<>> THEN Call("", <<>>, Ok) ELSE calls[c][Len(calls[c])]

\* C1: in both facades, _is_stack_exists(n) returns False when get_template
\* fails with a client error whose message is exactly "Stack with id n does
\* not exist", and True when get_template succeeds.
C1_ExistenceCheckResult ==
    \A c \in Clients :
        (Done(c) /\ op[c].name = "_is_stack_exists") =>
            /\ calls[c][1].api = "get_template"
            /\ calls[c][1].ok => outcome[c] = Returned("True")
            /\ SaysNotExist(calls[c][1], op[c].stack_name) => outcome[c] = Returned("False")

C1_Witness ==
    \E c \in Clients :
        /\ Done(c)
        /\ op[c].name = "_is_stack_exists"
        /\ op[c].facade = "CloudFormation"
        /\ SaysNotExist(calls[c][1], op[c].stack_name)
        /\ outcome[c] = Returned("False")

\* C2: when get_template fails with anything but a client error whose message
\* is exactly "Stack with id n does not exist", that error is raised
\* unchanged by _is_stack_exists and by save, and save calls nothing else.
C2_OtherCheckErrorPropagates ==
    \A c \in Clients :
        (/\ op[c].name \in {"_is_stack_exists", "save"}
         /\ Len(calls[c]) >= 1
         /\ ~calls[c][1].ok
         /\ ~SaysNotExist(calls[c][1], op[c].stack_name)) =>
            /\ Done(c)
            /\ outcome[c] = Raised(calls[c][1].err)
            /\ Len(calls[c]) = 1

\* save ended on "Stack with id m does not exist" for another stack m.
C2_Witness ==
    \E c \in Clients, m \in StackNames :
        /\ Done(c)
        /\ op[c].name = "save"
        /\ op[c].facade = "CloudFormation"
        /\ m # op[c].stack_name
        /\ SaysNotExist(calls[c][1], m)
        /\ outcome[c] = Raised(calls[c][1].err)

\* c runs CloudFormation.save and its existence check has answered.
CfSaveChecked(c) ==
    /\ op[c].facade = "CloudFormation"
    /\ op[c].name = "save"
    /\ Len(calls[c]) >= 1

\* The key save and delete are to use for the arguments of c.
ExpectedKey(c) == IF op[c].s3_key = <<>> THEN op[c].stack_name ELSE op[c].s3_key[1]

\* The upload with upload_api, then the URL of the uploaded object, then
\* stack_api once with StackName n and that URL; nothing of the other branch.
BranchTaken(c, upload_api, stack_api, other_upload, other_stack) ==
    LET cs == calls[c] IN
    /\ Count(c, other_upload) = 0
    /\ Count(c, other_stack) = 0
    /\ Count(c, upload_api) <= 1
    /\ Count(c, stack_api) <= 1
    /\ Len(cs) >= 2 =>
        /\ cs[2].api = upload_api
        /\ cs[2].args = [bucket_name |-> bucket_name, key |-> ExpectedKey(c),
                         str_content |-> ToJson(Template)]
    /\ Done(c) => Len(cs) >= 2
    /\ (Done(c) /\ cs[2].ok /\ Len(cs) >= 3 /\ cs[3].ok) =>
        /\ Len(cs) = 4
        /\ cs[3].api = "generate_url"
        /\ cs[3].args.s3_file = [bucket |-> cs[2].args.bucket_name, key |-> cs[2].args.key]
        /\ cs[4].api = stack_api
        /\ cs[4].args.StackName = op[c].stack_name
        /\ cs[4].args.TemplateURL = [bucket |-> cs[3].args.s3_file.bucket,
                                     key |-> cs[3].args.s3_file.key,
                                     expires |-> cs[3].args.expires]
    /\ (Done(c) /\ cs[2].ok) => Len(cs) >= 3

\* C3: save(n) takes exactly one of two branches decided by the existence
\* check: if the stack exists it uploads with update_key and calls
\* update_stack once with StackName n and the URL generated from the uploaded
\* object, and never create_key or create_stack; if it does not exist it
\* uploads with create_key and calls create_stack once, and never update_key
\* or update_stack.
C3_SaveTwoBranches ==
    \A c \in Clients :
        CfSaveChecked(c) =>
            /\ calls[c][1].ok =>
                BranchTaken(c, "update_key", "update_stack", "create_key", "create_stack")
            /\ SaysNotExist(calls[c][1], op[c].stack_name) =>
                BranchTaken(c, "create_key", "create_stack", "update_key", "update_stack")

\* save found the stack missing, uploaded with create_key and created it.
C3_Witness ==
    \E c \in Clients :
        /\ Done(c)
        /\ CfSaveChecked(c)
        /\ SaysNotExist(calls[c][1], op[c].stack_name)
        /\ Len(calls[c]) = 4
        /\ calls[c][2].api = "create_key"
        /\ calls[c][4].api = "create_stack"
        /\ calls[c][4].ok
        /\ outcome[c] = Returned("None")

\* C4: when save is in the update branch and update_stack fails with a
\* client error whose message is exactly "No updates are to be performed.",
\* save returns normally.
C4_NoUpdateSwallowed ==
    \A c \in Clients :
        (/\ Done(c)
         /\ op[c].name = "save"
         /\ Last(c).api = "update_stack"
         /\ SaysNoUpdate(Last(c))) =>
            outcome[c] = Returned("None")

C4_Witness ==
    \E c \in Clients :
        /\ Done(c)
        /\ op[c].name = "save"
        /\ op[c].facade = "CloudFormation"
        /\ Last(c).api = "update_stack"
        /\ SaysNoUpdate(Last(c))
        /\ outcome[c] = Returned("None")

\* C5: when save is in the update branch and update_stack fails with
\* anything but a client error whose message is exactly "No updates are to
\* be performed.", save raises that same error.
C5_OtherUpdateErrorPropagates ==
    \A c \in Clients :
        (/\ Done(c)
         /\ op[c].name = "save"
         /\ Last(c).api = "update_stack"
         /\ ~Last(c).ok
         /\ ~SaysNoUpdate(Last(c))) =>
            outcome[c] = Raised(Last(c).err)

\* update_stack failed with a client error that carries no message at all.
C5_Witness ==
    \E c \in Clients :
        /\ Done(c)
        /\ op[c].name = "save"
        /\ op[c].facade = "CloudFormation"
        /\ Last(c).api = "update_stack"
        /\ Last(c).err = [type |-> "ClientError", response |-> <<>>]
        /\ outcome[c] = Raised(Last(c).err)

\* The key and the bucket a call to the object store names, and the stack
\* name a call to the stack-management client names, are the expected ones.
CallTargetsRight(c, call) ==
    CASE call.api \in {"update_key", "create_key"} ->
            call.args.key = ExpectedKey(c) /\ call.args.bucket_name = bucket_name
      [] call.api = "remove_keys" ->
            call.args.keys = <<ExpectedKey(c)>> /\ call.args.bucket_name = bucket_name
      [] call.api = "generate_url" ->
            call.args.s3_file = [bucket |-> bucket_name, key |-> ExpectedKey(c)]
      [] call.api \in {"update_stack", "create_stack"} ->
            /\ call.args.StackName = op[c].stack_name
            /\ call.args.TemplateURL.key = ExpectedKey(c)
            /\ call.args.TemplateURL.bucket = bucket_name
      [] OTHER -> call.args.StackName = op[c].stack_name

\* C6: in save and in delete the object-store key is the s3_key argument
\* whenever it is not None (the empty string included) and the stack name
\* otherwise; the bucket is the bucket name given at construction; the
\* stack-management calls use the stack name, never the key.
C6_KeyBucketAndStackName ==
    \A c \in Clients :
        (op[c].facade = "CloudFormation" /\ op[c].name \in {"save", "delete"}) =>
            \A i \in 1..Len(calls[c]) : CallTargetsRight(c, calls[c][i])

\* delete("a" or "b", s3_key="") removed the key "" from a bucket other than
\* the default one and deleted the stack by its name.
C6_Witness ==
    \E c \in Clients :
        /\ Done(c)
        /\ op[c].name = "delete"
        /\ op[c].s3_key = <<"">>
        /\ bucket_name # "krux-temp"
        /\ Len(calls[c]) = 2
        /\ calls[c][1].args.keys = <<"">>
        /\ calls[c][2].args.StackName = op[c].stack_name

\* C7: delete(n) never performs the existence check; it calls remove_keys
\* once for the single computed key and then delete_stack once for n, in
\* that order, whether or not stack n exists.
C7_DeleteSequence ==
    \A c \in Clients :
        op[c].name = "delete" =>
            LET cs == calls[c] IN
            /\ Count(c, "get_template") = 0
            /\ Len(cs) <= 2
            /\ Len(cs) >= 1 =>
                /\ cs[1].api = "remove_keys"
                /\ cs[1].args.keys = <<ExpectedKey(c)>>
            /\ Len(cs) = 2 =>
                /\ cs[1].ok
                /\ cs[2].api = "delete_stack"
                /\ cs[2].args = [StackName |-> op[c].stack_name]
            /\ Done(c) => Len(cs) >= 1
            /\ (Done(c) /\ cs[1].ok) => Len(cs) = 2

\* delete ran to the end on a stack that did not exist.
C7_Witness ==
    \E c \in Clients :
        /\ Done(c)
        /\ op[c].name = "delete"
        /\ op[c].stack_name \notin stacks0[c]
        /\ Len(calls[c]) = 2
        /\ calls[c][2].ok
        /\ outcome[c] = Returned("None")

ObjectStoreApis == {"update_key", "create_key", "generate_url", "remove_keys"}

StackMutationApis == {"update_stack", "create_stack", "delete_stack"}

\* Call i of c is a failed call to the object store: the operation ends
\* there, raises that error, has issued no stack mutation and has left the
\* stacks as they were.
PassedThrough(c, i) ==
    /\ Done(c)
    /\ i = Len(calls[c])
    /\ outcome[c] = Raised(calls[c][i].err)
    /\ \A j \in 1..Len(calls[c]) : calls[c][j].api \notin StackMutationApis
    /\ stacks = stacks0[c]

\* C8: every failure of the object store is passed through to the caller
\* unmodified and stops the operation before the stack-management mutation.
C8_ObjectStoreFailurePassedThrough ==
    \A c \in Clients :
        (op[c].facade = "CloudFormation" /\ op[c].name \in {"save", "delete"}) =>
            \A i \in 1..Len(calls[c]) :
                (calls[c][i].api \in ObjectStoreApis /\ ~calls[c][i].ok) =>
                    PassedThrough(c, i)

\* The part of C8 about the upload and about remove_keys: their failures are
\* passed through and stop the operation.
C8_UploadAndRemoveFailures ==
    \A c \in Clients :
        (op[c].facade = "CloudFormation" /\ op[c].name \in {"save", "delete"}) =>
            \A i \in 1..Len(calls[c]) :
                (/\ calls[c][i].api \in {"update_key", "create_key", "remove_keys"}
                 /\ ~calls[c][i].ok) =>
                    PassedThrough(c, i)

\* A failed generate_url is passed through too, unless it is in the update
\* branch and carries "No updates are to be performed."
C8_UrlFailures ==
    \A c \in Clients :
        \A i \in 1..Len(calls[c]) :
            (/\ calls[c][i].api = "generate_url"
             /\ ~calls[c][i].ok
             /\ ~(calls[c][2].api = "update_key" /\ SaysNoUpdate(calls[c][i]))) =>
                PassedThrough(c, i)

\* C9: there is no retry.  In one invocation of save get_template is called
\* exactly once and at most one of create_stack and update_stack is called,
\* at most once, whatever the collaborators answer; in one invocation of
\* delete remove_keys and delete_stack are each called at most once.
C9_NoRetry ==
    \A c \in Clients :
        /\ op[c].name = "save" =>
            /\ Count(c, "get_template") <= 1
            /\ Count(c, "create_stack") + Count(c, "update_stack") <= 1
            /\ Done(c) => Count(c, "get_template") = 1
        /\ op[c].name = "delete" =>
            /\ Count(c, "remove_keys") <= 1
            /\ Count(c, "delete_stack") <= 1

\* save ended on an update_stack that failed with an unknown client error,
\* having called it once.
C9_Witness ==
    \E c \in Clients :
        /\ Done(c)
        /\ op[c].name = "save"
        /\ op[c].facade = "CloudFormation"
        /\ Last(c).api = "update_stack"
        /\ HasMessage(Last(c).err, "An error that I cannot handle happened")
        /\ Count(c, "update_stack") = 1
        /\ Count(c, "get_template") = 1

\* C10: there is no partial-failure recovery.  When save has uploaded the
\* template and the create_stack or update_stack that follows fails, save
\* calls the object store no more and the uploaded object stays at the key;
\* when delete has removed the key and delete_stack fails, the key stays
\* removed, the stacks are as they were, and the error is raised.
C10_NoRecovery ==
    \A c \in Clients :
        op[c].facade = "CloudFormation" =>
            \A i \in 1..Len(calls[c]) :
                /\ (calls[c][i].api \in {"create_stack", "update_stack"} /\ ~calls[c][i].ok) =>
                    /\ i = Len(calls[c])
                    /\ Done(c)
                    /\ Cardinality({j \in 1..Len(calls[c]) :
                                        calls[c][j].api \in ObjectStoreApis}) = 2
                    /\ ExpectedKey(c) \in bucket
                /\ (calls[c][i].api = "delete_stack" /\ ~calls[c][i].ok) =>
                    /\ i = Len(calls[c])
                    /\ Done(c)
                    /\ ExpectedKey(c) \notin bucket
                    /\ stacks = stacks0[c]
                    /\ outcome[c] = Raised(calls[c][i].err)

\* create_stack failed after the upload: the object is in the bucket and the
\* stack is not there.
C10_Witness ==
    \E c \in Clients :
        /\ Done(c)
        /\ op[c].facade = "CloudFormation"
        /\ Last(c).api = "create_stack"
        /\ ~Last(c).ok
        /\ ExpectedKey(c) \in bucket
        /\ op[c].stack_name \notin stacks
        /\ outcome[c] = Raised(Last(c).err)

\* delete_stack failed after remove_keys: the key is gone and the stack is
\* still there.
C10_WitnessDelete ==
    \E c \in Clients :
        /\ Done(c)
        /\ Last(c).api = "delete_stack"
        /\ ~Last(c).ok
        /\ ExpectedKey(c) \notin bucket
        /\ op[c].stack_name \in stacks

\* C11 as stated: one invocation of save or delete issues exactly one call
\* to a remote collaborator.
C11_SingleRoundTrip ==
    \A c \in Clients :
        (Done(c) /\ op[c].name \in {"save", "delete"}) => Len(calls[c]) = 1

\* Call i of c returned, or is the existence check answering that the stack
\* does not exist.
Went(c, i) ==
    \/ calls[c][i].ok
    \/ i = 1 /\ op[c].name = "save" /\ SaysNotExist(calls[c][1], op[c].stack_name)

\* C11 (amended): an operation is a sequence of synchronous calls, each
\* issued after the one before it has answered: CloudFormation.save issues 1
\* to 4 collaborator calls (get_template, the upload, generate_url, the stack
\* call) and all 4 unless one of them raises, Troposphere.save 1 or 2,
\* delete 1 or 2.
C11_BoundedCallSequence ==
    \A c \in Clients :
        LET most == IF op[c].facade = "CloudFormation" /\ op[c].name = "save" THEN 4 ELSE 2 IN
        op[c].name \in {"save", "delete"} =>
            /\ Len(calls[c]) <= most
            /\ Done(c) => Len(calls[c]) >= 1
            /\ (Done(c) /\ \A i \in 1..Len(calls[c]) : Went(c, i)) => Len(calls[c]) = most
            /\ \A i \in 1..Len(calls[c]) : i < Len(calls[c]) => Went(c, i)

\* A save that found the stack missing and issued four calls.
C11_Witness ==
    \E c \in Clients :
        /\ Done(c)
        /\ op[c].name = "save"
        /\ op[c].facade = "CloudFormation"
        /\ Len(calls[c]) = 4
        /\ ~calls[c][1].ok
        /\ outcome[c] = Returned("None")

UploadApis == {"update_key", "create_key", "generate_url"}

\* C14: a failure of the object store during save (the upload or the
\* generation of the template URL) is raised to the caller, also when it is
\* a client error with the message "No updates are to be performed."; only
\* an error of update_stack itself is swallowed.
C14_ObjectStoreErrorNeverSwallowed ==
    \A c \in Clients :
        (Done(c) /\ op[c].facade = "CloudFormation" /\ op[c].name = "save") =>
            /\ (Last(c).api \in UploadApis /\ ~Last(c).ok) => outcome[c] = Raised(Last(c).err)
            /\ (outcome[c].status = "returned" /\ ~Last(c).ok) => Last(c).api = "update_stack"

\* The upload itself is never swallowed, whatever its message.
C14_UploadErrorRaised ==
    \A c \in Clients :
        (/\ Done(c) /\ op[c].facade = "CloudFormation" /\ op[c].name = "save"
         /\ Last(c).api \in {"update_key", "create_key"} /\ ~Last(c).ok) =>
            outcome[c] = Raised(Last(c).err)

\* C15: in the create branch of save nothing is swallowed: every failure of
\* create_stack is raised unchanged, the messages "No updates are to be
\* performed." and "Stack with id n does not exist" included.
C15_CreateErrorsPropagate ==
    \A c \in Clients :
        (/\ Done(c)
         /\ op[c].name = "save"
         /\ Last(c).api = "create_stack"
         /\ ~Last(c).ok) =>
            outcome[c] = Raised(Last(c).err)

\* create_stack failed with "No updates are to be performed." and save raised it.
C15_Witness ==
    \E c \in Clients :
        /\ Done(c)
        /\ op[c].name = "save"
        /\ op[c].facade = "CloudFormation"
        /\ Last(c).api = "create_stack"
        /\ SaysNoUpdate(Last(c))
        /\ outcome[c] = Raised(Last(c).err)

\* create_stack failed with "Stack with id n does not exist" for the n saved.
C15_WitnessNotExist ==
    \E c \in Clients :
        /\ Done(c)
        /\ op[c].name = "save"
        /\ Last(c).api = "create_stack"
        /\ SaysNotExist(Last(c), op[c].stack_name)
        /\ outcome[c] = Raised(Last(c).err)

\* err is a client error whose response has no 'Error' or no 'Message'.
NoMessage(err) ==
    /\ err.type = "ClientError"
    /\ \/ "Error" \notin DOMAIN err.response
       \/ "Message" \notin DOMAIN err.response["Error"]

\* C16: a client error whose response has no 'Error' entry or no 'Message'
\* entry counts as having the empty message, which is neither special
\* message for any stack name; it is always raised, from the existence check
\* and from update_stack.
C16_MissingMessagePropagates ==
    /\ \A n \in StackNames : StackNotExistMsg(n) # "" /\ TpStackNotExistMsg(n) # ""
    /\ _NO_UPDATE_ERROR_MSG # "" /\ NO_UPDATE_ERROR_MSG # ""
    /\ \A c \in Clients :
        (/\ Done(c)
         /\ op[c].name \in {"_is_stack_exists", "save"}
         /\ Last(c).api \in {"get_template", "update_stack"}
         /\ NoMessage(Last(c).err)) =>
            /\ ErrMessage(Last(c).err) = ""
            /\ outcome[c] = Raised(Last(c).err)

\* The existence check of save got a client error with an empty response.
C16_Witness ==
    \E c \in Clients :
        /\ Done(c)
        /\ op[c].name = "save"
        /\ op[c].facade = "CloudFormation"
        /\ Last(c).api = "get_template"
        /\ Last(c).err = [type |-> "ClientError", response |-> <<>>]
        /\ outcome[c] = Raised(Last(c).err)

\* update_stack got a client error whose 'Error' entry has no 'Message'.
C16_WitnessUpdate ==
    \E c \in Clients :
        /\ Done(c)
        /\ Last(c).api = "update_stack"
        /\ NoMessage(Last(c).err)
        /\ "Error" \in DOMAIN Last(c).err.response
        /\ outcome[c] = Raised(Last(c).err)

\* C12: constructing CloudFormation (or Troposphere) with a boto object that
\* is no Boto3 raises NotImplementedError with the message "Currently
\* krux_cloud_formation.cloud_formation.CloudFormation only supports
\* krux_boto.boto.Boto3" (or the message of Troposphere), before a
\* 'cloudformation' client is requested and before a template is created.
C12_NonBoto3Rejected ==
    \A c \in Clients :
        (op[c].name = "__init__" /\ locals[c].boto # "Boto3" /\ pc[c] # "isinstance") =>
            /\ Done(c)
            /\ outcome[c].status = "raised"
            /\ outcome[c].err.type = "NotImplementedError"
            /\ outcome[c].err.message =
                 IF op[c].facade = "CloudFormation"
                 THEN "Currently krux_cloud_formation.cloud_formation.CloudFormation only supports krux_boto.boto.Boto3"
                 ELSE "Currently krux_troposphere.troposphere.Troposphere only supports krux_boto.boto.Boto3"
            /\ calls[c] = <<>>
            /\ locals[c].self._cf = ""
            /\ locals[c].self.template = <<>>

\* CloudFormation was given a krux_boto.boto.Boto and raised.
C12_Witness ==
    \E c \in Clients :
        /\ Done(c)
        /\ op[c].name = "__init__"
        /\ op[c].facade = "CloudFormation"
        /\ locals[c].boto = "Boto"
        /\ outcome[c].status = "raised"
        /\ calls[c] = <<>>

\* A constructor given a Boto3 requested the client and created the template.
C12_WitnessBoto3 ==
    \E c \in Clients :
        /\ Done(c)
        /\ op[c].name = "__init__"
        /\ locals[c].boto = "Boto3"
        /\ outcome[c] = Returned("None")
        /\ Len(calls[c]) = 1
        /\ locals[c].self.template # <<>>


\* The word that follows the last occurrence of a flag on a command line, or
\* the default when the flag is not on it.
FlagValue(argv, flag, default) ==
    LET at == {i \in 2..(Len(argv) - 1) : argv[i] = flag}
    IN  IF at = {} THEN default ELSE argv[(CHOOSE i \in at : \A j \in at : j <= i) + 1]

C13_WitnessArgv ==
    \E c \in active :
        /\ op[c].name = "get_cloud_formation"
        /\ Done(c) /\ outcome[c].status = "returned"
        /\ locals[c].inputs.args = None
        /\ \E i \in 1..Len(locals[c].inputs.argv) : locals[c].inputs.argv[i] = "--foo"
        /\ locals[c].wiring.boto.region \in {"cn-north-1", "eu-west-1"}


StackManagementApis == {"get_template", "update_stack", "create_stack", "delete_stack"}

\* The calls of c to the stack-management client, in the order made.
StackCalls(c) == SelectSeq(calls[c], LAMBDA call : call.api \in StackManagementApis)

\* The calls of c to the object store, in the order made.
StoreCalls(c) == SelectSeq(calls[c], LAMBDA call : call.api \in ObjectStoreApis)

\* Both saves are over, for the same stack name; the object store did not
\* fail; the stack-management client gave both the same answers.
SameAnswers(cf, tp) ==
    /\ Done(cf) /\ Done(tp)
    /\ op[cf].stack_name = op[tp].stack_name
    /\ \A i \in 1..Len(StoreCalls(cf)) : StoreCalls(cf)[i].ok
    /\ \A i \in 1..Len(StackCalls(cf)) :
        i <= Len(StackCalls(tp)) =>
            /\ StackCalls(cf)[i].ok = StackCalls(tp)[i].ok
            /\ StackCalls(cf)[i].err = StackCalls(tp)[i].err

\* Claim C17: given the same answers of get_template, create_stack and
\* update_stack and an object store that does not fail, Troposphere.save and
\* CloudFormation.save make the same stack-management calls in the same
\* order for the same StackName and end the same way (both return, or both
\* raise the same error); the stack call carries TemplateBody in one and the
\* TemplateURL of the uploaded object in the other; Troposphere.save makes no
\* call to the object store.
C17_SaveEquivalent ==
    /\ StoreCalls("c2") = <<>>
    /\ pc["c1"] = "idle" => bucket = {}
    /\ SameAnswers("c1", "c2") =>
        /\ Len(StackCalls("c1")) = Len(StackCalls("c2"))
        /\ \A i \in 1..Len(StackCalls("c1")) :
            LET a == StackCalls("c1")[i]
                b == StackCalls("c2")[i]
            IN  /\ a.api = b.api
                /\ a.args.StackName = op["c1"].stack_name
                /\ b.args.StackName = op["c1"].stack_name
                /\ a.api # "get_template" =>
                    /\ DOMAIN a.args = {"StackName", "TemplateURL"}
                    /\ DOMAIN b.args = {"StackName", "TemplateBody"}
                    /\ a.args.TemplateURL.key = ExpectedKey("c1")
                    /\ b.args.TemplateBody = ToJson(Template)
                /\ a.api = "get_template" => a.args = b.args
        /\ outcome["c1"] = outcome["c2"]

\* Both saves updated the same stack and were told that nothing changed:
\* both returned.
C17_Witness ==
    /\ SameAnswers("c1", "c2")
    /\ Len(StackCalls("c1")) = 2
    /\ StackCalls("c1")[2].api = "update_stack"
    /\ SaysNoUpdate(StackCalls("c2")[2])
    /\ outcome["c2"] = Returned("None")
    /\ Len(StoreCalls("c1")) = 2

\* Both saves created the same stack and create_stack failed for both.
C17_WitnessCreate ==
    /\ SameAnswers("c1", "c2")
    /\ Len(StackCalls("c2")) = 2
    /\ StackCalls("c2")[2].api = "create_stack"
    /\ outcome["c1"].status = "raised"


\* c is in a save of a stack that an earlier save created and no delete has
\* deleted since: the stack was there when this save was entered.
LaterSave(c) ==
    /\ op[c].facade = "CloudFormation"
    /\ op[c].name = "save"
    /\ op[c].stack_name \in stacks0[c]

\* Claim C18: against a remote API that reports existing stacks as existing,
\* a save(n) that comes after a save(n) created the stack, with no delete of
\* it in between, takes the update branch and calls neither create_key nor
\* create_stack; when update_stack answers "No updates are to be
\* performed." that save returns.
C18_LaterSaveUpdates ==
    \A c \in active :
        LaterSave(c) =>
            /\ Count(c, "create_stack") = 0
            /\ Count(c, "create_key") = 0
            /\ pc[c] \notin {"create_key", "create_url", "create_stack"}
            /\ Len(calls[c]) >= 1 => calls[c][1].ok
            /\ Len(calls[c]) >= 2 => calls[c][2].api = "update_key"
            /\ (Done(c) /\ Last(c).api = "update_stack" /\ SaysNoUpdate(Last(c))) =>
                    outcome[c] = Returned("None")
            /\ (Done(c) /\ Last(c).api = "update_stack" /\ Last(c).ok) =>
                    outcome[c] = Returned("None")

\* A later save of an existing stack was told that nothing changed and
\* returned; the stack is still there.
C18_Witness ==
    \E c \in active :
        /\ LaterSave(c)
        /\ Done(c)
        /\ Last(c).api = "update_stack"
        /\ SaysNoUpdate(Last(c))
        /\ outcome[c] = Returned("None")
        /\ op[c].stack_name \in stacks

\* A save of a stack that is not there takes the create branch and creates it.
C18_WitnessAfterDelete ==
    \E c \in active :
        /\ op[c].name = "save"
        /\ op[c].stack_name \notin stacks0[c]
        /\ bucket # {}
        /\ Done(c)
        /\ Last(c).api = "create_stack"
        /\ Last(c).ok
        /\ stacks = StackNames


\* This step is a call of api by c.
Issues(c, api) ==
    /\ Len(calls'[c]) = Len(calls[c]) + 1
    /\ calls'[c][Len(calls'[c])].api = api

\* C19 as stated: with the calls of several clients interleaved, save calls
\* create_stack for a name only when that stack does not exist at the moment
\* of the call, and update_stack only when it exists.
C19_CheckAndActAtomic ==
    [][\A c \in Clients :
            /\ Issues(c, "create_stack") => op[c].stack_name \notin stacks
            /\ Issues(c, "update_stack") => op[c].stack_name \in stacks]_vars

\* The branch of a save in progress is the one its own existence check chose.
BranchFollowsCheck ==
    \A c \in Clients :
        (op[c].facade = "CloudFormation" /\ op[c].name = "save") =>
            /\ (pc[c] \in {"create_key", "create_url", "create_stack"}
                    \/ Count(c, "create_key") + Count(c, "create_stack") > 0) =>
                    /\ calls[c][1].api = "get_template"
                    /\ SaysNotExist(calls[c][1], op[c].stack_name)
            /\ (pc[c] \in {"update_key", "update_url", "update_stack"}
                    \/ Count(c, "update_key") + Count(c, "update_stack") > 0) =>
                    /\ calls[c][1].api = "get_template"
                    /\ calls[c][1].ok

\* Claim C19, amended: with the calls of several clients interleaved, save
\* calls create_stack for a name only if that stack did not exist at the
\* moment of this save's own get_template, and update_stack only if it
\* existed then; the stack may have been created or deleted by another
\* client between the check and the call.
C19_BranchDecidedAtCheck ==
    /\ []BranchFollowsCheck
    /\ [][\A c \in Clients :
            (Issues(c, "get_template") /\ op[c].name = "save") =>
                /\ calls'[c][1].ok => op[c].stack_name \in stacks
                /\ SaysNotExist(calls'[c][1], op[c].stack_name) =>
                        op[c].stack_name \notin stacks
                /\ pc'[c] = "update_key" <=> calls'[c][1].ok
                /\ pc'[c] = "create_key" <=> SaysNotExist(calls'[c][1], op[c].stack_name)]_vars

\* Two saves of the same stack both found it missing and both called
\* create_stack: the second call was made while the stack existed.
C19_Witness ==
    /\ op["c1"].name = "save" /\ op["c2"].name = "save"
    /\ op["c1"].stack_name = op["c2"].stack_name
    /\ Done("c1") /\ Done("c2")
    /\ Count("c1", "create_stack") = 1
    /\ Count("c2", "create_stack") = 1
    /\ calls["c1"][4].ok /\ calls["c2"][4].ok
    /\ op["c1"].stack_name \notin stacks0["c1"] \cup stacks0["c2"]

\* A save found the stack, a delete of the other client removed it, and the
\* save then called update_stack for a stack that was gone.
C19_WitnessUpdateAfterDelete ==
    \E c, d \in Clients :
        /\ op[c].name = "save" /\ op[d].name = "delete"
        /\ op[c].stack_name = op[d].stack_name
        /\ Done(c) /\ Done(d)
        /\ outcome[d] = Returned("None")
        /\ Count(c, "update_stack") = 1
        /\ op[c].stack_name \notin stacks


\* save(n, k) of c1 returned and then delete(n, k) of c2, with the same
\* arguments, returned.
SavedThenDeleted ==
    /\ op["c1"].name = "save" /\ op["c2"].name = "delete"
    /\ op["c1"].stack_name = op["c2"].stack_name
    /\ op["c1"].s3_key = op["c2"].s3_key
    /\ Done("c1") /\ outcome["c1"].status = "returned"
    /\ Done("c2") /\ outcome["c2"].status = "returned"

\* Claim C20: after a successful save(n, k) and a successful delete(n, k)
\* with the same arguments, delete has removed exactly the key save wrote,
\* in the same bucket: the bucket holds no object written by that save and
\* stack n is gone; with k = None the key of both is n.
C20_SaveDeleteRoundTrip ==
    SavedThenDeleted =>
        LET upload == calls["c1"][2]
            removal == calls["c2"][1]
        IN  /\ upload.api \in {"update_key", "create_key"}
            /\ removal.api = "remove_keys"
            /\ removal.args.keys = <<upload.args.key>>
            /\ removal.args.bucket_name = upload.args.bucket_name
            /\ op["c1"].s3_key = None => upload.args.key = op["c1"].stack_name
            /\ upload.args.key \notin bucket
            /\ bucket = {}
            /\ op["c1"].stack_name \notin stacks

\* A stack was created under a key of its own and deleted with the same key.
C20_Witness ==
    /\ SavedThenDeleted
    /\ op["c1"].s3_key = Some("FAKE_KEY")
    /\ Count("c1", "create_stack") = 1
    /\ calls["c1"][2].args.key = "FAKE_KEY"
    /\ stacks0["c2"] = {op["c1"].stack_name}
    /\ stacks = {}

\* The same with no key given.
C20_WitnessNoKey ==
    /\ SavedThenDeleted
    /\ op["c1"].s3_key = None
    /\ calls["c2"][1].args.keys = <<op["c1"].stack_name>>
    /\ stacks0["c2"] # {}

====
